---- MODULE Spec2Model ----
(***************************************************************************)
(* Model of the orchestration of the LOTR multi-agent demo (src/main.py):  *)
(* main, the two scenario functions run_ping_pong and run_mystery_solving, *)
(* and stream_agent_response.  One behaviour of Spec is one run of the     *)
(* program.  ClassifySpec is the verdict of run_ping_pong on its own,      *)
(* CollectSpec is one call of stream_agent_response on its own, and        *)
(* QuoteSpec is the tool get_lotr_quote of src/lotr_mcp_server.py with the *)
(* calls one server process serves.                                        *)
(*                                                                         *)
(* Text is a sequence of atoms.  An atom is a one-character string, or a   *)
(* longer string that stands for one fixed block of prompt text of the     *)
(* source (no case folding, trimming or searching ever looks inside a      *)
(* fixed block: they are applied to agent replies only).                   *)
(***************************************************************************)
EXTENDS Integers, Sequences, FiniteSets, TLC

(***************************************************************************)
(* Bounds of the model.                                                    *)
(***************************************************************************)
MaxPingPong == 3
MaxTurns == 3
MaxChunks == 3
MaxCalls == 2
MaxTotal == 2

(***************************************************************************)
(* str.lower(), str.upper(), str.strip(), str.startswith(), "in"           *)
(***************************************************************************)
LowerLetters ==
  <<"a","b","c","d","e","f","g","h","i","j","k","l","m",
    "n","o","p","q","r","s","t","u","v","w","x","y","z">>
UpperLetters ==
  <<"A","B","C","D","E","F","G","H","I","J","K","L","M",
    "N","O","P","Q","R","S","T","U","V","W","X","Y","Z">>

Whitespace == {" ", "\n", "\t"}

LowerChar(c) ==
  IF \E i \in 1..26 : UpperLetters[i] = c
    THEN LowerLetters[CHOOSE i \in 1..26 : UpperLetters[i] = c]
    ELSE c

UpperChar(c) ==
  IF \E i \in 1..26 : LowerLetters[i] = c
    THEN UpperLetters[CHOOSE i \in 1..26 : LowerLetters[i] = c]
    ELSE c

Lower(s) == [i \in 1..Len(s) |-> LowerChar(s[i])]
Upper(s) == [i \in 1..Len(s) |-> UpperChar(s[i])]

Strip(s) ==
  LET keep == {i \in 1..Len(s) : s[i] \notin Whitespace}
  IN  IF keep = {} THEN <<>>
      ELSE LET lo == CHOOSE i \in keep : \A j \in keep : i <= j
               hi == CHOOSE i \in keep : \A j \in keep : j <= i
           IN  SubSeq(s, lo, hi)

StartsWith(s, p) == Len(p) <= Len(s) /\ SubSeq(s, 1, Len(p)) = p

Contains(s, p) ==
  \E i \in 0..(Len(s) - Len(p)) : SubSeq(s, i + 1, i + Len(p)) = p

RECURSIVE Join(_)
Join(parts) ==
  IF parts = <<>> THEN <<>> ELSE Head(parts) \o Join(Tail(parts))

(***************************************************************************)
(* Fixed texts of the source.                                              *)
(***************************************************************************)
W_poetry == <<"p","o","e","t","r","y">>
W_mystery == <<"m","y","s","t","e","r","y">>
W_approved == <<"a","p","p","r","o","v","e","d">>
W_revise == <<"r","e","v","i","s","e">>
W_SOLUTION == <<"S","O","L","U","T","I","O","N",":">>
W_CONCUR == <<"C","O","N","C","U","R">>

INITIAL_TASK == <<"Fetch a Lord of the Rings quote ... craft a concise four-line poem">>
REVIEW_REQUEST == <<"Please evaluate the paraphrase and poem below. Confirm APPROVED or provide REVISE feedback.\n\n">>
INCORPORATE == <<"Incorporate the critic feedback below. Keep the poem to four lines ... STATUS: READY.\n\n">>
FEEDBACK_LABEL == <<"Feedback: ">>
DRAFT_LABEL == <<"\n\nPrevious poem draft:\n">>
mystery_prompt == <<"Weave a dark mystery set in Middle-earth. ...">>
CONTEXT_HEAD == <<"A dark mystery has been presented:\n\n">>
CONTEXT_TAIL == <<"\n\nWhat are your initial thoughts?">>
VERIFY_HEAD == <<"Gandalf proposes the following solution:\n\n">>
VERIFY_TAIL == <<"\n\nDo you concur with this solution, or do you see any flaws?">>
DISSENT_HEAD == <<"Bilbo's response to your solution:\n\n">>
DISSENT_TAIL == <<"\n\nConsider his feedback and continue investigating.">>
ANALYSIS_HEAD == <<"Gandalf's analysis:\n\n">>
ANALYSIS_TAIL == <<"\n\nWhat are your thoughts? Do you notice anything else?">>
OBSERVATION_HEAD == <<"Bilbo's observation:\n\n">>
OBSERVATION_TAIL == <<"\n\nIncorporate his insights and continue your deduction.">>

(***************************************************************************)
(* The agents, and what the external collaborators may produce.  A chunk   *)
(* of run_stream carries a text delta (empty: no text), how far its raw    *)
(* representation goes along the chain _chunk_contains_tool_calls walks,   *)
(* and the names of the tool calls at the end of that chain ("None": a     *)
(* call whose function has no name).                                       *)
(***************************************************************************)
Agents == {"poet", "critic", "sauron", "gandalf", "bilbo"}
PoetryAgents == <<"poet", "critic">>
MysteryAgents == <<"sauron", "gandalf", "bilbo">>

\* where the chain of line 138-147 stops: raw_representation is None
\* ("no_raw"), its own raw_representation is None ("no_inner"), there is no
\* choices attribute or no choice ("no_choices"), no delta ("no_delta"), no
\* tool_calls attribute or None ("no_tool_calls"); "delta": tool_calls is a list
RawShapes == {"no_raw", "no_inner", "no_choices", "no_delta", "no_tool_calls", "delta"}

RawChunk(text, raw, calls) == [text |-> text, raw |-> raw, tool_calls |-> calls]

Chunk(text, calls) ==
  RawChunk(text, IF calls = <<>> THEN "no_tool_calls" ELSE "delta", calls)
TextChunk(text) == Chunk(text, <<>>)

PoetStreams ==
  { << Chunk(<<>>, <<"get_lotr_quote">>), TextChunk(<<"o","d","e">>) >>,
    << TextChunk(<<"e","l">>), TextChunk(<<"e","g","y","\n">>) >> }

CriticStreams ==
  { << TextChunk(<<"A","p","p">>), TextChunk(<<"r","o","v","e","d",":"," ","o","k">>) >>,
    << TextChunk(<<"A","P","P","R","O","V","E","D">>) >>,
    << TextChunk(<<"R","E","V","I","S","E",":"," ","x","\n">>) >>,
    << TextChunk(<<"m","a","y","b","e","?">>) >>,
    << >> }

SauronStreams ==
  { << Chunk(<<>>, <<"get_lotr_quote">>), TextChunk(<<"r","i","d","d","l","e">>) >> }

GandalfStreams ==
  { << TextChunk(<<"S","o","l","u","t","i","o","n",":"," ","x">>) >>,
    << TextChunk(<<"a"," ","s","o","l","u">>), TextChunk(<<"t","i","o","n",":","y">>) >>,
    << TextChunk(<<"s","o","l","u","t","i","o","n","?">>) >> }

BilboStreams ==
  { << TextChunk(<<"I"," ","C","O","N","C","U","R">>) >>,
    << TextChunk(<<"c","o","n">>), TextChunk(<<"c","u","r","!">>) >>,
    << TextChunk(<<"c","o","n","c","e","r","n">>) >> }

StreamsOf(agent) ==
  CASE agent = "poet" -> PoetStreams
    [] agent = "critic" -> CriticStreams
    [] agent = "sauron" -> SauronStreams
    [] agent = "gandalf" -> GandalfStreams
    [] agent = "bilbo" -> BilboStreams

\* values of the SCENARIO environment variable, and lines typed at the prompt
ScenarioEnvs ==
  { <<>>, W_poetry, <<"M","y","s","t","e","r","y">>, <<"h","a","i","k","u">> }
Choices == { <<"1">>, <<" ","2","\n">>, <<"3">>, <<>> }

\* values int(os.getenv(...)) can give for the two limits
PingPongLimits == (0 - 1)..MaxPingPong
TurnLimits == (0 - 1)..MaxTurns

(***************************************************************************)
(* State.                                                                  *)
(***************************************************************************)
VARIABLES
  env,                   \* os.getenv("SCENARIO", "")
  scenario,              \* main: scenario
  pc,                    \* where main (and the scenario it runs) stands
  exc,                   \* the exception being propagated: "none", "error", "interrupt"
  pending,               \* async with: the agents still to enter, in order
  held,                  \* async with: the agents entered and not yet exited
  acquired,              \* per agent, how many times its __aenter__ completed
  released,              \* per agent, how many times its __aexit__ was run
  threads,               \* per agent, the thread get_new_thread() gave (0: none)
  limit,                 \* run_ping_pong: limit
  max_turns,             \* run_mystery_solving: max_turns
  turn,                  \* the for loop's variable (0: no iteration yet)
  next_task,             \* run_ping_pong
  poem_output,           \* run_ping_pong
  critic_output,         \* run_ping_pong
  investigation_context, \* run_mystery_solving
  current_investigator,  \* run_mystery_solving
  solved,                \* run_mystery_solving
  ret,                   \* the await of stream_agent_response that is pending
  stream,                \* the chunks run_stream has still to yield
  collected,             \* stream_agent_response: collected
  yielded,               \* the chunks run_stream has yielded to this call so far
  log_tool_calls,        \* stream_agent_response: log_tool_calls
  tool_prints,           \* the "Tool calls:" lines printed
  inflight,              \* the agents whose run_stream is being consumed
  calls,                 \* every run_stream call made: agent, thread, message, reply
  console,               \* the reports printed, in order
  total_quotes,          \* AppContext.total_quotes (<<>>: None, <<n>>: the int n)
  tool_pc,               \* per call of get_lotr_quote, the await it stands at
  quote_id,              \* per call, get_lotr_quote: quote_id
  random_offset,         \* per call, _fetch_random_quote: random_offset
  outcomes,              \* per call, the quote returned or the exception raised
  upstream_total         \* the "total" the upstream API gives when asked

vars ==
  << env, scenario, pc, exc, pending, held, acquired, released, threads, limit,
     max_turns, turn, next_task, poem_output, critic_output,
     investigation_context, current_investigator, solved, ret, stream,
     collected, yielded, log_tool_calls, tool_prints, inflight, calls, console,
     total_quotes, tool_pc, quote_id, random_offset, outcomes, upstream_total >>

mainVars == << env, scenario, pending, held, acquired, released, limit, max_turns >>
poetryVars == << next_task, poem_output, critic_output >>
mysteryVars == << investigation_context, current_investigator, solved >>
streamVars ==
  << ret, stream, collected, yielded, log_tool_calls, tool_prints, inflight, calls >>
serverVars ==
  << total_quotes, tool_pc, quote_id, random_offset, outcomes, upstream_total >>

\* a count response of the upstream API that carries the total n
Reports(n) == [answer |-> "total", total |-> n]

\* the calls of get_lotr_quote one server process serves
ToolCalls == 1..MaxCalls

\* the server once lifespan has yielded AppContext(http_client=client)
ServerIdle ==
  /\ total_quotes = <<>>
  /\ tool_pc = [c \in ToolCalls |-> "idle"]
  /\ quote_id = [c \in ToolCalls |-> "None"]
  /\ random_offset = [c \in ToolCalls |-> 0]
  /\ outcomes = [c \in ToolCalls |-> "none"]

Init ==
  /\ env \in ScenarioEnvs
  /\ scenario = <<>>
  /\ pc = "start"
  /\ exc = "none"
  /\ pending = <<>>
  /\ held = <<>>
  /\ acquired = [a \in Agents |-> 0]
  /\ released = [a \in Agents |-> 0]
  /\ threads = [a \in Agents |-> 0]
  /\ limit = 0
  /\ max_turns = 0
  /\ turn = 0
  /\ next_task = <<>>
  /\ poem_output = <<>>
  /\ critic_output = <<>>
  /\ investigation_context = <<>>
  /\ current_investigator = "gandalf"
  /\ solved = FALSE
  /\ ret = "none"
  /\ stream = <<>>
  /\ collected = <<>>
  /\ yielded = <<>>
  /\ log_tool_calls = FALSE
  /\ tool_prints = <<>>
  /\ inflight = {}
  /\ calls = <<>>
  /\ console = <<>>
  /\ ServerIdle
  /\ upstream_total = Reports(MaxTotal)

(***************************************************************************)
(* stream_agent_response                                                   *)
(***************************************************************************)
\* the agents in flight once run_stream(agent) has been called
CallBegins(flying, agent) == flying \cup {agent}

\* (mutation) the call is left in flight when its stream has ended
CallEnds_StillFlying(flying, agent) == flying

\* the agents in flight once the async for over agent's stream has ended
CallEnds(flying, agent) == flying \ {agent}

\* _chunk_contains_tool_calls: the chain of checks ends in len(tool_calls) > 0
_chunk_contains_tool_calls(chunk) ==
  chunk.raw = "delta" /\ Len(chunk.tool_calls) > 0

\* (mutation) the calls without a name are kept
ToolNames_KeepsNone(chunk) == chunk.tool_calls

\* [call.function.name for call in ... if call.function.name is not None]
ToolNames(chunk) == SelectSeq(chunk.tool_calls, LAMBDA n : n /= "None")

\* (mutation) the joined text is returned as it is
CollectedText_NoStrip(parts) == Join(parts)

\* "".join(collected).strip()
CollectedText(parts) == Strip(Join(parts))

\* the call of stream_agent_response up to its first await; `log` and `flying`
\* are the calls made and the agents in flight when it is called
StartCall(agent, message, logTools, where, log, flying) ==
  /\ \E st \in StreamsOf(agent) : stream' = st
  /\ collected' = <<>>
  /\ yielded' = <<>>
  /\ log_tool_calls' = logTools
  /\ inflight' = CallBegins(flying, agent)
  /\ calls' = Append(log, [agent |-> agent, thread |-> threads'[agent],
                           message |-> message, reply |-> <<>>, state |-> "open"])
  /\ ret' = where
  /\ pc' = "stream"
  /\ UNCHANGED tool_prints

\* one iteration of the async for
StreamChunk ==
  /\ pc = "stream"
  /\ stream /= <<>>
  /\ LET chunk == Head(stream) IN
       /\ stream' = Tail(stream)
       /\ yielded' = Append(yielded, chunk)
       /\ IF chunk.text /= <<>>
            THEN /\ collected' = Append(collected, chunk.text)
                 /\ UNCHANGED tool_prints
            ELSE /\ UNCHANGED collected
                 /\ IF /\ log_tool_calls
                       /\ _chunk_contains_tool_calls(chunk)
                       /\ ToolNames(chunk) /= <<>>
                      THEN tool_prints' = Append(tool_prints, ToolNames(chunk))
                      ELSE UNCHANGED tool_prints
  /\ UNCHANGED << mainVars, poetryVars, mysteryVars, pc, exc, threads, turn, ret,
                  log_tool_calls, inflight, calls, console >>
  /\ UNCHANGED serverVars

\* the stream is exhausted: stream_agent_response returns to its caller
Returns(where) == pc = "stream" /\ stream = <<>> /\ ret = where

Closed(text) ==
  [calls EXCEPT ![Len(calls)] = [@ EXCEPT !.reply = text, !.state = "done"]]

Failed == [calls EXCEPT ![Len(calls)] = [@ EXCEPT !.state = "failed"]]

Cancelled == [calls EXCEPT ![Len(calls)] = [@ EXCEPT !.state = "cancelled"]]

\* (mutation) the scenario swallows the exception and goes on with its loop
Propagate_Swallowed(where) ==
  IF where \in {"pp_poet", "pp_critic"} THEN "pp_loop" ELSE "my_loop"

\* where control goes when the await `where` raises: neither
\* stream_agent_response nor the scenario functions have a try block, so the
\* exception leaves the async with of main
Propagate(where) == "release"

\* run_stream raises (on the call or on any chunk)
StreamRaises ==
  /\ pc = "stream"
  /\ exc' = "error"
  /\ pc' = Propagate(ret)
  /\ inflight' = {}
  /\ calls' = Failed
  /\ UNCHANGED << mainVars, poetryVars, mysteryVars, threads, turn, ret, stream,
                  collected, yielded, log_tool_calls, tool_prints, console >>
  /\ UNCHANGED serverVars

\* (mutation) the else branch is missing: anything else runs the poetry scenario
Selected_NoElse(s) == IF s = W_mystery THEN "mystery" ELSE "poetry"

\* the branch the if / elif / else of lines 373-435 takes
Selected(s) ==
  IF s = W_poetry THEN "poetry"
  ELSE IF s = W_mystery THEN "mystery"
  ELSE "unknown"

(***************************************************************************)
(* run_ping_pong                                                           *)
(***************************************************************************)
\* (mutation) range(1, n + 2): one iteration too many
LoopContinues_OneMore(t, n) == t <= n

\* for turn in range(1, n + 1): is there a next value after `t`?
LoopContinues(t, n) == t + 1 <= n

\* (mutation) the case folding is forgotten
Normalized_NoLower(text) == Strip(text)

\* normalized = critic_output.strip().lower()
Normalized(text) == Lower(Strip(text))

\* (mutation) the verdict is compared with the keyword instead of its prefix
PoetryVerdict_WholeReply(text) ==
  IF Normalized(text) = W_approved THEN "approved" ELSE "revise"

\* the verdict of lines 208-216
PoetryVerdict(text) ==
  IF StartsWith(Normalized(text), W_approved) THEN "approved"
  ELSE IF StartsWith(Normalized(text), W_revise) THEN "revise"
  ELSE "revise"

\* the else branch of lines 214-216 prints the diagnostic
Unrecognized(text) ==
  /\ ~StartsWith(Normalized(text), W_approved)
  /\ ~StartsWith(Normalized(text), W_revise)

ReviewPrompt(poem) == REVIEW_REQUEST \o poem

\* (mutation) the draft is left out of the revision task
RevisionTask_NoDraft(feedback, poem) ==
  INCORPORATE \o FEEDBACK_LABEL \o feedback \o DRAFT_LABEL

RevisionTask(feedback, poem) ==
  INCORPORATE \o FEEDBACK_LABEL \o feedback \o DRAFT_LABEL \o poem

\* (mutation) the agents of the scenario are given one thread to share
NewThreads_Shared(th, agents) ==
  [a \in Agents |-> IF \E i \in DOMAIN agents : agents[i] = a THEN 1 ELSE th[a]]

\* agent.get_new_thread() for each agent of the scenario, in order: the i-th
\* call gives the i-th thread
NewThreads(th, agents) ==
  [a \in Agents |-> IF \E i \in DOMAIN agents : agents[i] = a
                      THEN CHOOSE i \in DOMAIN agents : agents[i] = a
                      ELSE th[a]]

\* poet.get_new_thread(), critic.get_new_thread(), next_task = initial_task
PP_Start ==
  /\ pc = "acquire"
  /\ pending = <<>>
  /\ Selected(scenario) = "poetry"
  /\ threads' = NewThreads(threads, PoetryAgents)
  /\ next_task' = INITIAL_TASK
  /\ pc' = "pp_loop"
  /\ UNCHANGED << mainVars, mysteryVars, streamVars, exc, turn, poem_output,
                  critic_output, console >>
  /\ UNCHANGED serverVars

\* the loop takes its next value and calls the poet
PP_NextTurn ==
  /\ pc = "pp_loop"
  /\ LoopContinues(turn, limit)
  /\ turn' = turn + 1
  /\ threads' = threads
  /\ StartCall("poet", next_task, TRUE, "pp_poet", calls, inflight)
  /\ UNCHANGED << mainVars, poetryVars, mysteryVars, exc, console >>
  /\ UNCHANGED serverVars

\* the loop is exhausted: the warning of line 228, and run_ping_pong returns
PP_LimitReached ==
  /\ pc = "pp_loop"
  /\ ~LoopContinues(turn, limit)
  /\ console' = Append(console, "limit")
  /\ pc' = "release"
  /\ UNCHANGED << mainVars, poetryVars, mysteryVars, streamVars, exc, threads, turn >>
  /\ UNCHANGED serverVars

\* (mutation) the poet's reply is not reviewed: the loop goes on to its next turn
PP_PoetReturns_SkipsReview ==
  /\ Returns("pp_poet")
  /\ LET text == CollectedText(collected) IN
       /\ poem_output' = text
       /\ calls' = Closed(text)
  /\ inflight' = CallEnds(inflight, "poet")
  /\ pc' = "pp_loop"
  /\ UNCHANGED << mainVars, mysteryVars, exc, threads, turn, next_task,
                  critic_output, ret, stream, collected, yielded, log_tool_calls,
                  tool_prints, console >>
  /\ UNCHANGED serverVars

\* the poet's reply is in: the critic is called with the review prompt
PP_PoetReturns ==
  /\ Returns("pp_poet")
  /\ LET text == CollectedText(collected) IN
       /\ poem_output' = text
       /\ threads' = threads
       /\ StartCall("critic", ReviewPrompt(text), FALSE, "pp_critic",
                    Closed(text), CallEnds(inflight, "poet"))
  /\ UNCHANGED << mainVars, mysteryVars, exc, turn, next_task, critic_output,
                  console >>
  /\ UNCHANGED serverVars

\* the critic's reply is in: the verdict, then return or the next task
PP_CriticReturns ==
  /\ Returns("pp_critic")
  /\ LET text == CollectedText(collected)
         notice == IF Unrecognized(text) THEN <<"unrecognized">> ELSE <<>>
     IN
       /\ critic_output' = text
       /\ inflight' = CallEnds(inflight, "critic")
       /\ calls' = Closed(text)
       /\ IF PoetryVerdict(text) = "approved"
            THEN /\ console' = console \o notice \o <<"approved">>
                 /\ pc' = "release"
                 /\ UNCHANGED next_task
            ELSE /\ console' = console \o notice
                 /\ next_task' = RevisionTask(text, poem_output)
                 /\ pc' = "pp_loop"
  /\ UNCHANGED << mainVars, mysteryVars, exc, threads, turn, poem_output, ret,
                  stream, collected, yielded, log_tool_calls, tool_prints >>
  /\ UNCHANGED serverVars

(***************************************************************************)
(* run_mystery_solving                                                     *)
(***************************************************************************)
\* (mutation) the case folding is forgotten
SolutionProposed_CaseSensitive(response) == Contains(response, W_SOLUTION)

\* "SOLUTION:" in response.upper()
SolutionProposed(response) == Contains(Upper(response), W_SOLUTION)

\* (mutation) the keyword is cut short
Concurs_ShortKeyword(bilbo_response) ==
  Contains(Upper(bilbo_response), <<"C","O","N","C">>)

\* (mutation) the case folding is forgotten
Concurs_CaseSensitive(bilbo_response) == Contains(bilbo_response, W_CONCUR)

\* "CONCUR" in bilbo_response.upper()
Concurs(bilbo_response) == Contains(Upper(bilbo_response), W_CONCUR)

\* (mutation) the mystery is left out of Gandalf's first message
InitialContext_NoMystery(mystery) == CONTEXT_HEAD \o CONTEXT_TAIL

\* (mutation) Bilbo's reply is left out of the message that follows a dissent
DissentContext_NoReply(bilbo_response) == DISSENT_HEAD \o DISSENT_TAIL

InitialContext(mystery) == CONTEXT_HEAD \o mystery \o CONTEXT_TAIL
VerificationPrompt(response) == VERIFY_HEAD \o response \o VERIFY_TAIL
DissentContext(bilbo_response) == DISSENT_HEAD \o bilbo_response \o DISSENT_TAIL
AnalysisContext(response) == ANALYSIS_HEAD \o response \o ANALYSIS_TAIL
ObservationContext(response) == OBSERVATION_HEAD \o response \o OBSERVATION_TAIL

\* the three threads, then Sauron is asked for the mystery
MY_Start ==
  /\ pc = "acquire"
  /\ pending = <<>>
  /\ Selected(scenario) = "mystery"
  /\ threads' = NewThreads(threads, MysteryAgents)
  /\ StartCall("sauron", mystery_prompt, TRUE, "my_sauron", calls, inflight)
  /\ UNCHANGED << mainVars, poetryVars, mysteryVars, exc, turn, console >>
  /\ UNCHANGED serverVars

\* the mystery is in: the first context, Gandalf first, not solved
MY_SauronReturns ==
  /\ Returns("my_sauron")
  /\ LET mystery == CollectedText(collected) IN
       /\ investigation_context' = InitialContext(mystery)
       /\ calls' = Closed(mystery)
  /\ current_investigator' = "gandalf"
  /\ solved' = FALSE
  /\ inflight' = CallEnds(inflight, "sauron")
  /\ pc' = "my_loop"
  /\ UNCHANGED << mainVars, poetryVars, exc, threads, turn, ret, stream, collected, yielded,
                  log_tool_calls, tool_prints, console >>
  /\ UNCHANGED serverVars

\* the loop takes its next value and calls the current investigator
MY_NextTurn ==
  /\ pc = "my_loop"
  /\ LoopContinues(turn, max_turns)
  /\ turn' = turn + 1
  /\ threads' = threads
  /\ IF current_investigator = "gandalf"
       THEN StartCall("gandalf", investigation_context, FALSE, "my_gandalf",
                      calls, inflight)
       ELSE StartCall("bilbo", investigation_context, FALSE, "my_bilbo",
                      calls, inflight)
  /\ UNCHANGED << mainVars, poetryVars, mysteryVars, exc, console >>
  /\ UNCHANGED serverVars

\* the loop is exhausted: control reaches line 333
MY_LoopExhausted ==
  /\ pc = "my_loop"
  /\ ~LoopContinues(turn, max_turns)
  /\ pc' = "my_after"
  /\ UNCHANGED << mainVars, poetryVars, mysteryVars, streamVars, exc, threads, turn,
                  console >>
  /\ UNCHANGED serverVars

\* (mutation) the warning is printed whether solved or not
WarnsUnsolved_Always(s) == TRUE

\* if not solved: is the warning of lines 334-335 printed?
WarnsUnsolved(s) == ~s

\* lines 333-335, reached from the exhausted loop and from the break
MY_AfterLoop ==
  /\ pc = "my_after"
  /\ console' = IF WarnsUnsolved(solved) THEN Append(console, "unsolved") ELSE console
  /\ pc' = "release"
  /\ UNCHANGED << mainVars, poetryVars, mysteryVars, streamVars, exc, threads, turn >>
  /\ UNCHANGED serverVars

\* Gandalf's reply is in: a proposed solution goes to Bilbo for verification
\* within the same turn, anything else becomes Bilbo's context for the next turn
MY_GandalfReturns ==
  /\ Returns("my_gandalf")
  /\ LET response == CollectedText(collected) IN
       IF SolutionProposed(response)
         THEN /\ threads' = threads
              /\ StartCall("bilbo", VerificationPrompt(response), FALSE,
                           "my_verify", Closed(response),
                           CallEnds(inflight, "gandalf"))
              /\ console' = Append(console, "proposed")
              /\ UNCHANGED << investigation_context, current_investigator >>
         ELSE /\ investigation_context' = AnalysisContext(response)
              /\ current_investigator' = "bilbo"
              /\ calls' = Closed(response)
              /\ inflight' = CallEnds(inflight, "gandalf")
              /\ pc' = "my_loop"
              /\ UNCHANGED << threads, ret, stream, collected, yielded, log_tool_calls,
                              tool_prints, console >>
  /\ UNCHANGED << mainVars, poetryVars, exc, turn, solved >>
  /\ UNCHANGED serverVars

\* Bilbo's verification is in: solved and break, or back to Gandalf
MY_VerifyReturns ==
  /\ Returns("my_verify")
  /\ LET bilbo_response == CollectedText(collected) IN
       /\ calls' = Closed(bilbo_response)
       /\ IF Concurs(bilbo_response)
            THEN /\ console' = Append(console, "solved")
                 /\ solved' = TRUE
                 /\ pc' = "my_after"
                 /\ UNCHANGED << investigation_context, current_investigator >>
            ELSE /\ investigation_context' = DissentContext(bilbo_response)
                 /\ current_investigator' = "gandalf"
                 /\ pc' = "my_loop"
                 /\ UNCHANGED << console, solved >>
  /\ inflight' = CallEnds(inflight, "bilbo")
  /\ UNCHANGED << mainVars, poetryVars, exc, threads, turn, ret, stream, collected, yielded,
                  log_tool_calls, tool_prints >>
  /\ UNCHANGED serverVars

\* (mutation) Bilbo's ordinary turn is tested for CONCUR like a verification
MY_BilboReturns_ConcurSolves ==
  /\ Returns("my_bilbo")
  /\ LET response == CollectedText(collected) IN
       /\ investigation_context' = ObservationContext(response)
       /\ calls' = Closed(response)
       /\ IF Concurs(response)
            THEN /\ console' = Append(console, "solved")
                 /\ solved' = TRUE
                 /\ pc' = "my_after"
            ELSE /\ pc' = "my_loop"
                 /\ UNCHANGED << console, solved >>
  /\ current_investigator' = "gandalf"
  /\ inflight' = CallEnds(inflight, "bilbo")
  /\ UNCHANGED << mainVars, poetryVars, exc, threads, turn, ret, stream,
                  collected, yielded, log_tool_calls, tool_prints >>
  /\ UNCHANGED serverVars

\* Bilbo's ordinary turn is in: his observation becomes Gandalf's context
MY_BilboReturns ==
  /\ Returns("my_bilbo")
  /\ LET response == CollectedText(collected) IN
       /\ investigation_context' = ObservationContext(response)
       /\ calls' = Closed(response)
  /\ current_investigator' = "gandalf"
  /\ inflight' = CallEnds(inflight, "bilbo")
  /\ pc' = "my_loop"
  /\ UNCHANGED << mainVars, poetryVars, exc, threads, turn, solved, ret, stream,
                  collected, yielded, log_tool_calls, tool_prints, console >>
  /\ UNCHANGED serverVars

(***************************************************************************)
(* main and the __main__ block                                             *)
(***************************************************************************)
\* scenario = os.getenv("SCENARIO", "").lower(); an empty one is prompted for
ReadScenario ==
  /\ pc = "start"
  /\ scenario' = Lower(env)
  /\ pc' = IF Lower(env) = <<>> THEN "prompt" ELSE "dispatch"
  /\ UNCHANGED << env, pending, held, acquired, released, limit, max_turns,
                  poetryVars, mysteryVars, streamVars, exc, threads, turn, console >>
  /\ UNCHANGED serverVars

\* one round of the prompt loop: "1" and "2" choose, anything else asks again
Prompt ==
  /\ pc = "prompt"
  /\ \E line \in Choices :
       LET choice == Strip(line) IN
         IF choice = <<"1">>
           THEN scenario' = W_poetry /\ pc' = "dispatch"
         ELSE IF choice = <<"2">>
           THEN scenario' = W_mystery /\ pc' = "dispatch"
         ELSE UNCHANGED << scenario, pc >>
  /\ UNCHANGED << env, pending, held, acquired, released, limit, max_turns,
                  poetryVars, mysteryVars, streamVars, exc, threads, turn, console >>
  /\ UNCHANGED serverVars

\* the branch is entered; the limit passed on is the configured integer
Dispatch ==
  /\ pc = "dispatch"
  /\ IF Selected(scenario) = "poetry"
       THEN /\ \E n \in PingPongLimits : limit' = n
            /\ pending' = PoetryAgents
            /\ pc' = "acquire"
            /\ UNCHANGED << max_turns, console >>
     ELSE IF Selected(scenario) = "mystery"
       THEN /\ \E n \in TurnLimits : max_turns' = n
            /\ pending' = MysteryAgents
            /\ pc' = "acquire"
            /\ UNCHANGED << limit, console >>
     ELSE /\ console' = Append(console, "unknown")
          /\ pc' = "exit"
          /\ UNCHANGED << limit, max_turns, pending >>
  /\ UNCHANGED << env, scenario, held, acquired, released, poetryVars, mysteryVars,
                  streamVars, exc, threads, turn >>
  /\ UNCHANGED serverVars

\* async with: the next agent is constructed and entered
Acquire ==
  /\ pc = "acquire"
  /\ pending /= <<>>
  /\ held' = Append(held, Head(pending))
  /\ acquired' = [acquired EXCEPT ![Head(pending)] = @ + 1]
  /\ pending' = Tail(pending)
  /\ UNCHANGED << env, scenario, released, limit, max_turns, poetryVars,
                  mysteryVars, streamVars, pc, exc, threads, turn, console >>
  /\ UNCHANGED serverVars

\* async with: constructing or entering the next agent raises
AcquireRaises ==
  /\ pc = "acquire"
  /\ pending /= <<>>
  /\ exc' = "error"
  /\ pc' = "release"
  /\ UNCHANGED << mainVars, poetryVars, mysteryVars, streamVars, threads, turn,
                  console >>
  /\ UNCHANGED serverVars

\* (mutation) only the innermost handle is exited
ExitInnermost_Only(h) == <<>>

\* the handles left to exit once `h` are held and the innermost one is exited
ExitInnermost(h) == SubSeq(h, 1, Len(h) - 1)

\* async with: leaving the block (normally or not) exits the innermost agent
Release ==
  /\ pc = "release"
  /\ held /= <<>>
  /\ released' = [released EXCEPT ![held[Len(held)]] = @ + 1]
  /\ held' = ExitInnermost(held)
  /\ UNCHANGED << env, scenario, pending, acquired, limit, max_turns, poetryVars,
                  mysteryVars, streamVars, pc, exc, threads, turn, console >>
  /\ UNCHANGED serverVars

\* the block is left: line 437 and the sleep of line 440, or the exception goes on
LeaveWith ==
  /\ pc = "release"
  /\ held = <<>>
  /\ IF exc = "none"
       THEN console' = Append(console, "complete") /\ pc' = "sleep"
       ELSE UNCHANGED console /\ pc' = "exit"
  /\ UNCHANGED << mainVars, poetryVars, mysteryVars, streamVars, exc, threads, turn >>
  /\ UNCHANGED serverVars

\* await asyncio.sleep(1.0) completes and main returns
SleepDone ==
  /\ pc = "sleep"
  /\ pc' = "exit"
  /\ UNCHANGED << mainVars, poetryVars, mysteryVars, streamVars, exc, threads, turn,
                  console >>
  /\ UNCHANGED serverVars

\* Ctrl-C while main is blocked (input(), or any await): the pending call is
\* cancelled and the exception unwinds through the async with
Interrupt ==
  /\ pc \in {"prompt", "acquire", "stream", "release", "sleep"}
  /\ exc /= "interrupt"
  /\ exc' = "interrupt"
  /\ pc' = IF pc = "prompt" THEN "exit" ELSE "release"
  /\ inflight' = {}
  /\ calls' = IF pc = "stream" THEN Cancelled ELSE calls
  /\ UNCHANGED << mainVars, poetryVars, mysteryVars, threads, turn, ret, stream,
                  collected, yielded, log_tool_calls, tool_prints, console >>
  /\ UNCHANGED serverVars

\* the except / finally clauses of lines 443-452
Exit ==
  /\ pc = "exit"
  /\ console' = console
       \o (IF exc = "interrupt" THEN <<"interrupted">>
           ELSE IF exc = "error" THEN <<"error">> ELSE <<>>)
       \o <<"finished">>
  /\ pc' = "finished"
  /\ UNCHANGED << mainVars, poetryVars, mysteryVars, streamVars, exc, threads, turn >>
  /\ UNCHANGED serverVars

Next ==
  \/ ReadScenario
  \/ Prompt
  \/ Dispatch
  \/ Acquire
  \/ AcquireRaises
  \/ PP_Start
  \/ PP_NextTurn
  \/ PP_PoetReturns
  \/ PP_CriticReturns
  \/ PP_LimitReached
  \/ MY_Start
  \/ MY_SauronReturns
  \/ MY_NextTurn
  \/ MY_GandalfReturns
  \/ MY_VerifyReturns
  \/ MY_BilboReturns
  \/ MY_LoopExhausted
  \/ MY_AfterLoop
  \/ StreamChunk
  \/ StreamRaises
  \/ Release
  \/ LeaveWith
  \/ SleepDone
  \/ Interrupt
  \/ Exit

Spec == Init /\ [][Next]_vars

(***************************************************************************)
(* The verdict of run_ping_pong on its own: lines 208-220 applied to any   *)
(* critic_output.                                                          *)
(***************************************************************************)
Capitalized(word) ==
  [i \in 1..Len(word) |-> IF i = 1 THEN UpperChar(word[i]) ELSE word[i]]

Alternating(word) ==
  [i \in 1..Len(word) |-> IF i % 2 = 0 THEN UpperChar(word[i]) ELSE word[i]]

Cased(word) == {word, Upper(word), Capitalized(word), Alternating(word)}

ReplyPads == { <<>>, <<" ">>, <<"\n", "\t">> }

ReplyWords ==
  { W_approved, W_revise, SubSeq(W_approved, 1, 7), SubSeq(W_revise, 1, 5),
    <<"n","o","t"," ">> \o W_approved, <<"m","a","y","b","e","?">>, <<>> }

ReplyTails == { <<>>, <<":"," ","o","k">>, <<"l","y">>, <<" ","\n">> }

ClassifyInputs ==
  UNION { UNION { { pad \o word \o tail : word \in Cased(w) } : w \in ReplyWords } :
          <<pad, tail>> \in ReplyPads \X ReplyTails }

ClassifyInit ==
  /\ env = W_poetry
  /\ scenario = W_poetry
  /\ pc = "classify"
  /\ exc = "none"
  /\ pending = <<>>
  /\ held = <<>>
  /\ acquired = [a \in Agents |-> 0]
  /\ released = [a \in Agents |-> 0]
  /\ threads = [a \in Agents |-> 0]
  /\ limit = 0
  /\ max_turns = 0
  /\ turn = 0
  /\ next_task = <<>>
  /\ poem_output = <<>>
  /\ critic_output \in ClassifyInputs
  /\ investigation_context = <<>>
  /\ current_investigator = "gandalf"
  /\ solved = FALSE
  /\ ret = "none"
  /\ stream = <<>>
  /\ collected = <<>>
  /\ yielded = <<>>
  /\ log_tool_calls = FALSE
  /\ tool_prints = <<>>
  /\ inflight = {}
  /\ calls = <<>>
  /\ console = <<>>
  /\ ServerIdle
  /\ upstream_total = Reports(MaxTotal)

\* lines 208-220: the diagnostic when there is one, then the verdict
Classify ==
  /\ pc = "classify"
  /\ console' = (IF Unrecognized(critic_output) THEN <<"unrecognized">> ELSE <<>>)
                   \o <<PoetryVerdict(critic_output)>>
  /\ pc' = "classified"
  /\ UNCHANGED << mainVars, poetryVars, mysteryVars, streamVars, exc, threads, turn >>
  /\ UNCHANGED serverVars

ClassifyNext == Classify

ClassifySpec == ClassifyInit /\ [][ClassifyNext]_vars

(***************************************************************************)
(* What the properties below speak of.                                     *)
(***************************************************************************)
Max0(n) == IF n < 0 THEN 0 ELSE n

CallsOf(agent) == Cardinality({i \in DOMAIN calls : calls[i].agent = agent})

RepliesOf(agent) ==
  {calls[i].reply : i \in {j \in DOMAIN calls :
                             calls[j].agent = agent /\ calls[j].state = "done"}}

\* `text` begins with `word` (given in lower case) in any mix of letter cases
BeginsWithAnyCase(text, word) ==
  /\ Len(text) >= Len(word)
  /\ \A i \in 1..Len(word) :
       \E k \in 1..26 : /\ LowerLetters[k] = word[i]
                        /\ text[i] \in {LowerLetters[k], UpperLetters[k]}

\* `text` holds `word` (given in lower case) somewhere, in any mix of letter cases
HoldsAnyCase(text, word) ==
  \E at \in 0..(Len(text) - Len(word)) :
    \A i \in 1..Len(word) :
      \E k \in 1..26 : /\ LowerLetters[k] = word[i]
                       /\ text[at + i] \in {LowerLetters[k], UpperLetters[k]}

IsVerification(call) == call.agent = "bilbo" /\ Head(call.message) = Head(VERIFY_HEAD)

VerificationCalls == Cardinality({i \in DOMAIN calls : IsVerification(calls[i])})

InvestigatorCalls == CallsOf("gandalf") + CallsOf("bilbo")

Reported(what) == \E i \in DOMAIN console : console[i] = what

TimesReported(what) == Cardinality({i \in DOMAIN console : console[i] = what})

\* the scenario function has been entered (its first statements make the threads)
PoetryRun == scenario = W_poetry /\ threads["poet"] /= 0
MysteryRun == scenario = W_mystery /\ threads["sauron"] /= 0

\* the run is over and nothing was raised
EndedNormally == pc = "finished" /\ exc = "none"

\* the scenario function has returned without raising
Returned == pc \in {"release", "sleep", "exit", "finished"} /\ exc = "none"

EveryCriticReplyApproves ==
  \A r \in RepliesOf("critic") : BeginsWithAnyCase(r, W_approved)

EveryCriticReplyRevises ==
  \A r \in RepliesOf("critic") : BeginsWithAnyCase(r, W_revise)

BilboNeverConcurs ==
  \A r \in RepliesOf("bilbo") : ~HoldsAnyCase(r, <<"c","o","n","c","u","r">>)

(***************************************************************************)
(* C1.  As claimed: in run_ping_pong, when every critic reply begins with  *)
(* "approved" in any letter case, the run ends Approved after exactly one  *)
(* iteration (one poet call, one critic call), whatever the limit is.      *)
(* Stated here for the limits of at least 0 only.                          *)
(***************************************************************************)
C1_AsClaimed ==
  (PoetryRun /\ EndedNormally /\ EveryCriticReplyApproves /\ limit >= 0)
    => /\ Reported("approved")
       /\ turn = 1
       /\ CallsOf("poet") = 1
       /\ CallsOf("critic") = 1

(***************************************************************************)
(* C1, amended.  With a limit of at least 1 and every critic reply         *)
(* beginning with "approved" in any letter case, there is never a second   *)
(* iteration, and a run that returns has made exactly one poet call and    *)
(* one critic call, reported the approval once and never the limit         *)
(* warning.  With a limit below 1 no agent is called and the run ends with *)
(* the limit warning.                                                      *)
(***************************************************************************)
C1_ApprovedAfterOneIteration ==
  (PoetryRun /\ EveryCriticReplyApproves)
    => /\ turn <= 1
       /\ CallsOf("poet") <= 1
       /\ CallsOf("critic") <= 1
       /\ (Returned /\ limit >= 1)
            => /\ turn = 1
               /\ CallsOf("poet") = 1
               /\ CallsOf("critic") = 1
               /\ TimesReported("approved") = 1
               /\ ~Reported("limit")
       /\ (Returned /\ limit < 1)
            => /\ calls = <<>>
               /\ Reported("limit")
               /\ ~Reported("approved")

C1_Witness ==
  /\ PoetryRun
  /\ EndedNormally
  /\ limit = MaxPingPong
  /\ EveryCriticReplyApproves
  /\ CallsOf("critic") = 1
  /\ Reported("approved")

(***************************************************************************)
(* C2.  As claimed: in run_ping_pong, when every critic reply begins with  *)
(* "revise", the run makes exactly PING_PONG_LIMIT poet calls and as many  *)
(* critic calls, never more, and ends with the limit warning, not with an  *)
(* approval.  Stated here of the runs that have returned.                  *)
(***************************************************************************)
C2_AsClaimed ==
  (PoetryRun /\ EveryCriticReplyRevises /\ Returned)
    => /\ CallsOf("poet") = limit
       /\ CallsOf("critic") = limit
       /\ Reported("limit")
       /\ ~Reported("approved")

(***************************************************************************)
(* C2, amended.  The number of iterations is PING_PONG_LIMIT when that is  *)
(* at least 0 and 0 when it is negative: with every critic reply beginning *)
(* with "revise" the run never makes more poet calls or critic calls than  *)
(* that, and when it returns it has made exactly that many of each and     *)
(* reported the limit warning once and no approval.                        *)
(***************************************************************************)
C2_RevisedUpToTheLimit ==
  (PoetryRun /\ EveryCriticReplyRevises)
    => /\ turn <= Max0(limit)
       /\ CallsOf("poet") <= Max0(limit)
       /\ CallsOf("critic") <= Max0(limit)
       /\ Returned
            => /\ turn = Max0(limit)
               /\ CallsOf("poet") = Max0(limit)
               /\ CallsOf("critic") = Max0(limit)
               /\ TimesReported("limit") = 1
               /\ ~Reported("approved")

C2_Witness ==
  /\ PoetryRun
  /\ EndedNormally
  /\ limit = MaxPingPong
  /\ EveryCriticReplyRevises
  /\ CallsOf("critic") = MaxPingPong
  /\ Reported("limit")

(***************************************************************************)
(* C3.  As claimed: in run_mystery_solving, when no reply of Bilbo holds   *)
(* "concur", the run consumes exactly MYSTERY_MAX_TURNS turns of its loop, *)
(* whatever Gandalf replies, and ends with the unsolved warning, never     *)
(* solved.                                                                 *)
(***************************************************************************)
C3_AsClaimed ==
  (MysteryRun /\ BilboNeverConcurs /\ Returned)
    => /\ turn = max_turns
       /\ Reported("unsolved")
       /\ ~Reported("solved")

(***************************************************************************)
(* C3, amended.  The number of turns is MYSTERY_MAX_TURNS when that is at  *)
(* least 0 and 0 when it is negative: when no reply of Bilbo holds         *)
(* "concur" in any letter case, the run is never solved, and when it       *)
(* returns it has consumed exactly that many turns and reported the        *)
(* unsolved warning once.                                                  *)
(***************************************************************************)
C3_UnsolvedAtTheLimit ==
  (MysteryRun /\ BilboNeverConcurs)
    => /\ ~solved
       /\ ~Reported("solved")
       /\ Returned
            => /\ turn = Max0(max_turns)
               /\ TimesReported("unsolved") = 1

C3_Witness ==
  /\ MysteryRun
  /\ EndedNormally
  /\ max_turns = MaxTurns
  /\ BilboNeverConcurs
  /\ VerificationCalls >= 1
  /\ CallsOf("bilbo") > VerificationCalls
  /\ Reported("unsolved")

(***************************************************************************)
(* C4.  As claimed: in run_mystery_solving the investigator calls made     *)
(* (Gandalf's and Bilbo's, verification included) are never more than      *)
(* MYSTERY_MAX_TURNS.  Stated here for the limits of at least 0 only.      *)
(***************************************************************************)
C4_AsClaimed == (MysteryRun /\ max_turns >= 0) => InvestigatorCalls <= max_turns

(***************************************************************************)
(* C4, amended.  The bound counts the turns of the loop, not the calls: a  *)
(* turn is one Gandalf call or one ordinary Bilbo call, and Bilbo's        *)
(* verification of a proposed solution is made within Gandalf's turn and   *)
(* is not counted.  The turns are never more than MYSTERY_MAX_TURNS (0     *)
(* when that is negative), the calls other than verifications are exactly  *)
(* the turns, there is at most one verification per Gandalf call, and so   *)
(* the investigator calls are never more than twice the bound.             *)
(***************************************************************************)
C4_TurnsNotCallsAreBounded ==
  MysteryRun
    => /\ turn <= Max0(max_turns)
       /\ InvestigatorCalls - VerificationCalls = turn
       /\ VerificationCalls <= CallsOf("gandalf")
       /\ InvestigatorCalls <= 2 * Max0(max_turns)

C4_Witness ==
  /\ MysteryRun
  /\ max_turns = MaxTurns
  /\ InvestigatorCalls = 2 * MaxTurns

(***************************************************************************)
(* C5.  As claimed: in both scenarios the iteration count is never more    *)
(* than the configured limit, and a run that does not fail leaves its loop *)
(* once, with exactly one of the two outcomes reported: the verdict        *)
(* (approved, solved) or the exhausted limit, never both.                  *)
(***************************************************************************)
C5_AsClaimed ==
  /\ PoetryRun
       => /\ turn <= limit
          /\ Returned => TimesReported("approved") + TimesReported("limit") = 1
  /\ MysteryRun
       => /\ turn <= max_turns
          /\ Returned => TimesReported("solved") + TimesReported("unsolved") = 1

(***************************************************************************)
(* C5, amended.  In both scenarios the iteration count is never more than  *)
(* the configured limit, or than 0 when the limit is negative, and a run   *)
(* that does not fail leaves its loop once, with exactly one of the two    *)
(* outcomes reported, once: the verdict (approved, solved) or the          *)
(* exhausted limit, never both; before the scenario returns at most one    *)
(* outcome has been reported.                                              *)
(***************************************************************************)
C5_BoundedAndOneOutcome ==
  /\ PoetryRun
       => /\ turn <= Max0(limit)
          /\ TimesReported("approved") + TimesReported("limit") <= 1
          /\ Returned => TimesReported("approved") + TimesReported("limit") = 1
          /\ pc \in {"pp_loop", "stream"} => ~Reported("approved") /\ ~Reported("limit")
  /\ MysteryRun
       => /\ turn <= Max0(max_turns)
          /\ TimesReported("solved") + TimesReported("unsolved") <= 1
          /\ Returned => TimesReported("solved") + TimesReported("unsolved") = 1
          /\ Reported("solved") <=> solved
          /\ pc \in {"my_loop", "stream"} => ~Reported("solved") /\ ~Reported("unsolved")
          /\ pc = "my_after" => ~Reported("unsolved")

C5_Witness ==
  /\ MysteryRun
  /\ EndedNormally
  /\ max_turns = MaxTurns
  /\ turn = MaxTurns
  /\ Reported("solved")

(***************************************************************************)
(* C6.  At most one run_stream call is in flight at any time: whenever a   *)
(* call has been started, every earlier call has had its stream consumed   *)
(* to the end and its text collected, and the only agent in flight is the  *)
(* one of the latest call.                                                 *)
(***************************************************************************)
C6_OneCallInFlight ==
  /\ Cardinality(inflight) <= 1
  /\ \A i \in DOMAIN calls : i < Len(calls) => calls[i].state = "done"
  /\ inflight /= {}
       => /\ pc = "stream"
          /\ calls /= <<>>
          /\ calls[Len(calls)].state = "open"
          /\ inflight = {calls[Len(calls)].agent}
  /\ (calls /= <<>> /\ calls[Len(calls)].state = "open")
       => inflight = {calls[Len(calls)].agent}

C6_Witness ==
  /\ pc = "stream"
  /\ Len(calls) >= 4
  /\ inflight = {"bilbo"}
  /\ IsVerification(calls[Len(calls)])

(***************************************************************************)
(* C7.  On every exit path of main (normal completion, an agent call or an *)
(* acquisition that raises, an interrupt) every agent handle that was      *)
(* acquired is released exactly once: a handle is acquired at most once,   *)
(* it is unreleased exactly while the async with holds it, and once the    *)
(* block is left, and when main has ended, none is held and each acquired  *)
(* handle has been released once.                                          *)
(***************************************************************************)
C7_HandlesReleasedOnce ==
  /\ \A a \in Agents :
       /\ acquired[a] <= 1
       /\ released[a] <= acquired[a]
       /\ (acquired[a] - released[a] = 1) <=> (\E i \in DOMAIN held : held[i] = a)
  /\ pc \in {"sleep", "exit", "finished"}
       => /\ held = <<>>
          /\ \A a \in Agents : released[a] = acquired[a]

C7_Witness ==
  /\ pc = "finished"
  /\ exc = "error"
  /\ Len(calls) >= 3
  /\ calls[Len(calls)].state = "failed"
  /\ \A a \in {"sauron", "gandalf", "bilbo"} : acquired[a] = 1 /\ released[a] = 1

(***************************************************************************)
(* C8.  When the selected scenario is neither "poetry" nor "mystery", main *)
(* reports the unknown scenario and ends: no agent handle is ever          *)
(* acquired, no agent call is made, nothing is raised, and nothing but the *)
(* report and the final line of the __main__ block is printed.             *)
(***************************************************************************)
C8_UnknownScenarioReported ==
  (scenario \notin {<<>>, W_poetry, W_mystery})
    => /\ exc = "none"
       /\ \A a \in Agents : acquired[a] = 0
       /\ held = <<>>
       /\ pending = <<>>
       /\ calls = <<>>
       /\ inflight = {}
       /\ pc \in {"dispatch", "exit", "finished"}
       /\ pc = "dispatch" => console = <<>>
       /\ pc = "exit" => console = <<"unknown">>
       /\ pc = "finished" => console = <<"unknown", "finished">>

C8_Witness ==
  /\ scenario = <<"h","a","i","k","u">>
  /\ pc = "finished"
  /\ Reported("unknown")

(***************************************************************************)
(* C9.  When an agent call raises, in any turn of either scenario, the     *)
(* failure leaves the scenario without a retry: the failed call is the     *)
(* last call of the run (its message is not sent again and no other call   *)
(* follows), and the run reports neither approved nor solved nor an        *)
(* exhausted limit, nor its completion.                                    *)
(***************************************************************************)
C9_FailurePropagates ==
  (\E i \in DOMAIN calls : calls[i].state = "failed")
    => /\ calls[Len(calls)].state = "failed"
       /\ \A i \in DOMAIN calls : i < Len(calls) => calls[i].state = "done"
       /\ exc /= "none"
       /\ inflight = {}
       /\ pc \in {"release", "exit", "finished"}
       /\ ~Reported("approved")
       /\ ~Reported("solved")
       /\ ~Reported("limit")
       /\ ~Reported("unsolved")
       /\ ~Reported("complete")
       /\ (pc = "finished" /\ exc = "error") => Reported("error")

C9_Witness ==
  /\ pc = "finished"
  /\ exc = "error"
  /\ PoetryRun
  /\ turn = 2
  /\ calls[Len(calls)].agent = "critic"
  /\ calls[Len(calls)].state = "failed"

(***************************************************************************)
(* C10.  The poetry verdict is total: every critic reply, the empty one    *)
(* included, gets exactly one of approved and revise.  It is approved      *)
(* exactly when the reply, after its leading white space, begins with      *)
(* "approved" in any mix of letter cases, and the unrecognized-verdict     *)
(* diagnostic is printed exactly when it begins with neither "approved"    *)
(* nor "revise".                                                           *)
(***************************************************************************)
LeadingToken(text, word) ==
  \E k \in 0..Len(text) :
    /\ \A i \in 1..k : text[i] \in Whitespace
    /\ k < Len(text) => text[k + 1] \notin Whitespace
    /\ BeginsWithAnyCase(SubSeq(text, k + 1, Len(text)), word)

C10_VerdictTotal ==
  pc = "classified"
    => /\ console \in { <<"approved">>, <<"revise">>, <<"unrecognized", "revise">> }
       /\ Reported("approved") <=> LeadingToken(critic_output, W_approved)
       /\ Reported("unrecognized")
            <=> /\ ~LeadingToken(critic_output, W_approved)
                /\ ~LeadingToken(critic_output, W_revise)

C10_Witness ==
  /\ pc = "classified"
  /\ critic_output = <<>>
  /\ console = <<"unrecognized", "revise">>

(***************************************************************************)
(* C11.  In run_mystery_solving, Bilbo's reply to a verification is taken  *)
(* as solved exactly when it holds "concur" in any mix of letter cases:    *)
(* the run is solved exactly when some verification reply holds it, such a *)
(* reply is the last call of the run (no agent is called after it), the    *)
(* unsolved warning is never printed then, and a verification reply        *)
(* without it leaves the run unsolved and in its loop.                     *)
(***************************************************************************)
VerificationReplied(i) ==
  i \in DOMAIN calls /\ IsVerification(calls[i]) /\ calls[i].state = "done"

ConcurringReply(i) ==
  VerificationReplied(i) /\ HoldsAnyCase(calls[i].reply, <<"c","o","n","c","u","r">>)

C11_SolvedIffConcur ==
  MysteryRun
    => /\ solved <=> \E i \in DOMAIN calls : ConcurringReply(i)
       /\ Reported("solved") <=> solved
       /\ \A i \in DOMAIN calls :
            /\ ConcurringReply(i)
                 => /\ i = Len(calls)
                    /\ inflight = {}
                    /\ pc \in {"my_after", "release", "sleep", "exit", "finished"}
                    /\ ~Reported("unsolved")
                    /\ EndedNormally => Reported("complete")
            /\ (VerificationReplied(i) /\ ~ConcurringReply(i) /\ i = Len(calls))
                 => /\ ~solved
                    /\ pc /= "finished" \/ exc /= "none" \/ Reported("unsolved")

C11_Witness ==
  /\ MysteryRun
  /\ EndedNormally
  /\ solved
  /\ Len(calls) >= 4
  /\ calls[Len(calls)].reply = <<"c","o","n","c","u","r","!">>
  /\ \E i \in DOMAIN calls : VerificationReplied(i) /\ ~ConcurringReply(i)

(***************************************************************************)
(* stream_agent_response on its own: one call, over every stream of up to  *)
(* MaxChunks chunks, with and without log_tool_calls.  The state is that   *)
(* of the call at its first await; the call is recorded the way StartCall  *)
(* records it.                                                             *)
(***************************************************************************)
CollectChunks ==
  { TextChunk(<<" ","h","i">>),
    TextChunk(<<"!","\n">>),
    Chunk(<<>>, <<"get_lotr_quote">>),
    Chunk(<<>>, <<"None", "describe_lotr_quote">>),
    Chunk(<<>>, <<"None">>),
    Chunk(<<"o","k">>, <<"get_lotr_quote">>),
    RawChunk(<<>>, "delta", <<>>) }
    \cup { RawChunk(<<>>, raw, <<>>) : raw \in RawShapes \ {"delta"} }

HelloStream ==
  << TextChunk(<<"H","e","l","l","o",","," ">>), TextChunk(<<"w","o","r","l","d">>) >>

CollectStreams ==
  {HelloStream} \cup UNION { [1..n -> CollectChunks] : n \in 0..MaxChunks }

CollectInit ==
  /\ env = <<>>
  /\ scenario = W_poetry
  /\ pc = "stream"
  /\ exc = "none"
  /\ pending = <<>>
  /\ held = <<>>
  /\ acquired = [a \in Agents |-> 0]
  /\ released = [a \in Agents |-> 0]
  /\ threads = NewThreads([a \in Agents |-> 0], PoetryAgents)
  /\ limit = 1
  /\ max_turns = 0
  /\ turn = 1
  /\ next_task = INITIAL_TASK
  /\ poem_output = <<>>
  /\ critic_output = <<>>
  /\ investigation_context = <<>>
  /\ current_investigator = "gandalf"
  /\ solved = FALSE
  /\ ret = "collect"
  /\ stream \in CollectStreams
  /\ collected = <<>>
  /\ yielded = <<>>
  /\ log_tool_calls \in BOOLEAN
  /\ tool_prints = <<>>
  /\ inflight = CallBegins({}, "poet")
  /\ calls = << [agent |-> "poet", thread |-> threads["poet"], message |-> next_task,
                 reply |-> <<>>, state |-> "open"] >>
  /\ console = <<>>
  /\ ServerIdle
  /\ upstream_total = Reports(MaxTotal)

\* return "".join(collected).strip()
CollectReturns ==
  /\ Returns("collect")
  /\ calls' = Closed(CollectedText(collected))
  /\ inflight' = CallEnds(inflight, "poet")
  /\ pc' = "collected"
  /\ UNCHANGED << mainVars, poetryVars, mysteryVars, exc, threads, turn, ret, stream,
                  collected, yielded, log_tool_calls, tool_prints, console >>
  /\ UNCHANGED serverVars

CollectNext ==
  \/ StreamChunk
  \/ CollectReturns

CollectSpec == CollectInit /\ [][CollectNext]_vars

\* the text deltas of the chunks, one after the other
RECURSIVE TextDeltas(_)
TextDeltas(chunks) ==
  IF chunks = <<>> THEN <<>> ELSE Head(chunks).text \o TextDeltas(Tail(chunks))

\* the names a chunk holds at the end of a whole chain
NamesIn(chunk) ==
  IF chunk.raw = "delta"
    THEN SelectSeq(chunk.tool_calls, LAMBDA name : name /= "None")
    ELSE <<>>

\* the names of the tool calls the chunks hold, in order
RECURSIVE NamesObserved(_)
NamesObserved(chunks) ==
  IF chunks = <<>> THEN <<>> ELSE NamesIn(Head(chunks)) \o NamesObserved(Tail(chunks))

\* one list of names per chunk that has no text and some named tool call
RECURSIVE NameListsOfTextless(_)
NameListsOfTextless(chunks) ==
  IF chunks = <<>> THEN <<>>
  ELSE (IF Head(chunks).text = <<>> /\ NamesIn(Head(chunks)) /= <<>>
          THEN << NamesIn(Head(chunks)) >> ELSE <<>>)
         \o NameListsOfTextless(Tail(chunks))

Textless(chunks) == \A i \in DOMAIN chunks : chunks[i].text = <<>>

Collecting == ret = "collect" /\ pc \in {"stream", "collected"}
CollectorReturned == ret = "collect" /\ pc = "collected"

(***************************************************************************)
(* C12 as the specification states it: the collector gives back, with the  *)
(* text, the names of the tool calls seen in the stream, in order, so a    *)
(* stream without text whose chunks hold named tool calls gives the empty  *)
(* text and a list of names that is not empty.  stream_agent_response      *)
(* returns a str; the only names it gives out are the lists it prints.     *)
(***************************************************************************)
C12_AsClaimed ==
  CollectorReturned
    => /\ Join(tool_prints) = NamesObserved(yielded)
       /\ (Textless(yielded) /\ NamesObserved(yielded) /= <<>>)
            => calls[1].reply = <<>> /\ tool_prints /= <<>>

(***************************************************************************)
(* C12.  stream_agent_response returns the text only.  The names of tool   *)
(* calls are printed, not returned: one list for each chunk that has no    *)
(* text and holds a named tool call, in order, and only when               *)
(* log_tool_calls is set.  A stream without text whose chunks hold named   *)
(* tool calls gives the empty text, and printed names exactly when         *)
(* log_tool_calls is set.                                                  *)
(***************************************************************************)
C12_NamesPrintedWhenLogging ==
  Collecting
    => /\ tool_prints = IF log_tool_calls THEN NameListsOfTextless(yielded) ELSE <<>>
       /\ (CollectorReturned /\ Textless(yielded) /\ NamesObserved(yielded) /= <<>>)
            => /\ calls[1].reply = <<>>
               /\ tool_prints /= <<>> <=> log_tool_calls

C12_Witness ==
  /\ CollectorReturned
  /\ log_tool_calls
  /\ Textless(yielded)
  /\ Len(yielded) = 3
  /\ tool_prints = << <<"get_lotr_quote">>, <<"describe_lotr_quote">> >>
  /\ calls[1].reply = <<>>

(***************************************************************************)
(* C13.  The text stream_agent_response returns is the text deltas of the  *)
(* chunks, joined in the order of arrival, without the white space at its  *)
(* two ends.  It is a function of the chunks alone, so it is the same with *)
(* and without log_tool_calls; a chunk with no text and no tool call the   *)
(* chain recognises changes nothing and raises nothing; the chunks         *)
(* "Hello, " and "world" give "Hello, world".                              *)
(***************************************************************************)
IsTrimOf(short, text) ==
  /\ \E i, j \in 0..Len(text) :
       /\ i + j <= Len(text)
       /\ short = SubSeq(text, i + 1, Len(text) - j)
       /\ \A k \in 1..i : text[k] \in Whitespace
       /\ \A k \in (Len(text) - j + 1)..Len(text) : text[k] \in Whitespace
  /\ short /= <<>> => short[1] \notin Whitespace /\ short[Len(short)] \notin Whitespace

C13_TextIsTrimmedConcatenation ==
  Collecting
    => /\ exc = "none"
       /\ Join(collected) = TextDeltas(yielded)
       /\ CollectorReturned
            => /\ stream = <<>>
               /\ calls[1].state = "done"
               /\ IsTrimOf(calls[1].reply, TextDeltas(yielded))
               /\ yielded = HelloStream
                    => calls[1].reply
                         = <<"H","e","l","l","o",","," ","w","o","r","l","d">>

C13_Witness ==
  /\ CollectorReturned
  /\ log_tool_calls
  /\ Len(yielded) = 3
  /\ yielded[1].text = <<" ","h","i">>
  /\ yielded[2] = RawChunk(<<>>, "no_inner", <<>>)
  /\ yielded[3].text = <<"!","\n">>
  /\ calls[1].reply = <<"h","i","!">>

(***************************************************************************)
(* lotr_mcp_server.py: get_lotr_quote.  The server runs each tool call as  *)
(* a task of its own, and the calls share the AppContext of lifespan, so   *)
(* the calls in ToolCalls interleave at their awaits.  The upstream API    *)
(* holds the quotes in Quotes; the total it reports, and whether it        *)
(* answers with an error status, are its own affair.                       *)
(***************************************************************************)
\* values of the quote_id argument: None, an id upstream has, one it has not
QuoteIds == {"None", "q1", "q9"}

\* the docs upstream holds, by offset
Quotes == <<"q1">>

\* the "total" of a count response: an error status instead of a response, a
\* payload without "total", one int() does not take, or a number
UpstreamTotals ==
  { [answer |-> a, total |-> 0] : a \in {"status_error", "missing", "n/a"} }
    \cup { Reports(n) : n \in (0 - 1)..MaxTotal }

clientVars ==
  << env, scenario, pc, exc, pending, held, acquired, released, threads, limit,
     max_turns, turn, next_task, poem_output, critic_output,
     investigation_context, current_investigator, solved, ret, stream,
     collected, yielded, log_tool_calls, tool_prints, inflight, calls, console >>

QuoteInit ==
  /\ env = <<>>
  /\ scenario = <<>>
  /\ pc = "start"
  /\ exc = "none"
  /\ pending = <<>>
  /\ held = <<>>
  /\ acquired = [a \in Agents |-> 0]
  /\ released = [a \in Agents |-> 0]
  /\ threads = [a \in Agents |-> 0]
  /\ limit = 0
  /\ max_turns = 0
  /\ turn = 0
  /\ next_task = <<>>
  /\ poem_output = <<>>
  /\ critic_output = <<>>
  /\ investigation_context = <<>>
  /\ current_investigator = "gandalf"
  /\ solved = FALSE
  /\ ret = "none"
  /\ stream = <<>>
  /\ collected = <<>>
  /\ yielded = <<>>
  /\ log_tool_calls = FALSE
  /\ tool_prints = <<>>
  /\ inflight = {}
  /\ calls = <<>>
  /\ console = <<>>
  /\ ServerIdle
  /\ upstream_total \in UpstreamTotals

\* `if quote_id:`
Truthy(id) == id /= "None"

\* payload.get("docs", []) of GET /quote/{id}
DocsById(id) == SelectSeq(Quotes, LAMBDA q : q = id)

\* payload.get("docs", []) of GET /quote with limit 1 and the offset
DocsAt(offset) == IF offset < Len(Quotes) THEN << Quotes[offset + 1] >> ELSE <<>>

\* call c ends, with a quote or with an exception, and its locals with it
Ends(c, result) ==
  /\ outcomes' = [outcomes EXCEPT ![c] = result]
  /\ tool_pc' = [tool_pc EXCEPT ![c] = "done"]
  /\ random_offset' = [random_offset EXCEPT ![c] = 0]

\* call c has sent a request to the upstream API and awaits the response
Awaits(c, where) ==
  /\ tool_pc' = [tool_pc EXCEPT ![c] = where]
  /\ UNCHANGED outcomes

\* (mutation) no docs: a quote is made up of the id asked for
ByIdOutcome_Echo(docs, id) == IF docs = <<>> THEN id ELSE docs[1]

\* lines 108-112: what get_lotr_quote gives for the docs of the id
ByIdOutcome(docs, id) == IF docs = <<>> THEN "RuntimeError_notfound" ELSE docs[1]

\* lines 85-89: what _fetch_random_quote gives for the docs at the offset
RandomOutcome(docs) == IF docs = <<>> THEN "RuntimeError_noquote" ELSE docs[1]

\* int(data.get("total", 0))
ParsedTotal(response) == IF response.answer = "missing" THEN 0 ELSE response.total

\* lines 70-82, run without an await: the check of the cached total, then the
\* random offset and the request for the quote at that offset
CheckTotalAndFetch(c, cached) ==
  IF cached <= 0
    THEN Ends(c, "RuntimeError_total")
    ELSE \E offset \in 0..(cached - 1) :
           /\ random_offset' = [random_offset EXCEPT ![c] = offset]
           /\ Awaits(c, "random")

\* lines 63-64 and 70-82: _ensure_total_quotes up to its first await
_ensure_total_quotes(c) ==
  IF total_quotes = <<>>
    THEN /\ Awaits(c, "count")
         /\ UNCHANGED random_offset
    ELSE CheckTotalAndFetch(c, total_quotes[1])

\* a call of get_lotr_quote, up to its first await; the calls are numbered in
\* the order they arrive
get_lotr_quote(c) ==
  /\ tool_pc[c] = "idle"
  /\ \A earlier \in 1..(c - 1) : tool_pc[earlier] /= "idle"
  /\ \E id \in QuoteIds, ctx \in {"None", "ctx"} :
       /\ quote_id' = [quote_id EXCEPT ![c] = id]
       /\ IF ctx = "None"
            THEN Ends(c, "RuntimeError_context")
            ELSE IF Truthy(id)
                   THEN /\ Awaits(c, "by_id")
                        /\ UNCHANGED random_offset
                   ELSE _ensure_total_quotes(c)
  /\ UNCHANGED << total_quotes, upstream_total >>
  /\ UNCHANGED clientVars

\* lines 64-68: the response to the count request arrives
CountResponse(c) ==
  /\ tool_pc[c] = "count"
  /\ IF upstream_total.answer = "status_error"
       THEN /\ Ends(c, "HTTPStatusError")
            /\ UNCHANGED total_quotes
       ELSE IF upstream_total.answer = "n/a"
              THEN /\ Ends(c, "ValueError")
                   /\ UNCHANGED total_quotes
              ELSE /\ total_quotes' = << ParsedTotal(upstream_total) >>
                   /\ Awaits(c, "debug")
                   /\ UNCHANGED random_offset
  /\ UNCHANGED << quote_id, upstream_total >>
  /\ UNCHANGED clientVars

\* lines 68-82: ctx.debug is done, _ensure_total_quotes goes on
DebugSent(c) ==
  /\ tool_pc[c] = "debug"
  /\ CheckTotalAndFetch(c, total_quotes[1])
  /\ UNCHANGED << total_quotes, quote_id, upstream_total >>
  /\ UNCHANGED clientVars

\* lines 82-89 and 115-116: the response to the request at the offset arrives
RandomResponse(c) ==
  /\ tool_pc[c] = "random"
  /\ \E status \in {"ok", "error"} :
       Ends(c, IF status = "error" THEN "HTTPStatusError"
               ELSE RandomOutcome(DocsAt(random_offset[c])))
  /\ UNCHANGED << total_quotes, quote_id, upstream_total >>
  /\ UNCHANGED clientVars

\* lines 105-112: the response to the request for the id arrives
ByIdResponse(c) ==
  /\ tool_pc[c] = "by_id"
  /\ \E status \in {"ok", "error"} :
       Ends(c, IF status = "error" THEN "HTTPStatusError"
               ELSE ByIdOutcome(DocsById(quote_id[c]), quote_id[c]))
  /\ UNCHANGED << total_quotes, quote_id, upstream_total >>
  /\ UNCHANGED clientVars

\* the upstream API comes to report another total
UpstreamChanges ==
  /\ \E total \in UpstreamTotals \ {upstream_total} : upstream_total' = total
  /\ UNCHANGED << total_quotes, tool_pc, quote_id, random_offset, outcomes >>
  /\ UNCHANGED clientVars

QuoteNext ==
  \/ \E c \in ToolCalls : get_lotr_quote(c)
  \/ \E c \in ToolCalls : CountResponse(c)
  \/ \E c \in ToolCalls : DebugSent(c)
  \/ \E c \in ToolCalls : RandomResponse(c)
  \/ \E c \in ToolCalls : ByIdResponse(c)
  \/ UpstreamChanges

QuoteSpec == QuoteInit /\ [][QuoteNext]_vars

\* the exceptions a call of get_lotr_quote ends with
Raised(result) ==
  result \in {"RuntimeError_context", "RuntimeError_notfound", "RuntimeError_total",
              "RuntimeError_noquote", "HTTPStatusError", "ValueError"}

\* call c ends in this step
Completes(c) == outcomes[c] = "none" /\ outcomes'[c] /= "none"

\* call c arrives in this step
Arrives(c) == tool_pc[c] = "idle" /\ tool_pc'[c] /= "idle"

\* call c sends its count request in this step
AsksTotal(c) == tool_pc[c] /= "count" /\ tool_pc'[c] = "count"

\* call c sends its request for the quote at a random offset in this step
AsksRandom(c) == tool_pc[c] /= "random" /\ tool_pc'[c] = "random"

UnknownId(id) == id /= "None" /\ \A i \in DOMAIN Quotes : Quotes[i] /= id

UpstreamTotalUsable == upstream_total.answer = "total" /\ upstream_total.total > 0

CachedUnusable == total_quotes /= <<>> /\ total_quotes[1] <= 0

(***************************************************************************)
(* C14 as the specification states it: a call of get_lotr_quote raises     *)
(* when the id it asks for does not exist, and raises when the upstream    *)
(* API cannot report a positive total.                                     *)
(***************************************************************************)
C14_AsClaimed ==
  [][\A c \in ToolCalls :
       Completes(c)
         => /\ UnknownId(quote_id'[c]) => Raised(outcomes'[c])
            /\ ~UpstreamTotalUsable => Raised(outcomes'[c])]_vars

(***************************************************************************)
(* C14.  A call of get_lotr_quote raises when the id it asks for does not  *)
(* exist.  A call without an id raises when the total cached for the       *)
(* server is not positive at the moment the call checks it, and asks for a *)
(* random quote only when that total is positive; a call with an id never  *)
(* looks at the total.                                                     *)
(***************************************************************************)
C14_FailsOnUnknownIdOrUnusableTotal ==
  [][\A c \in ToolCalls :
       /\ (Completes(c) /\ UnknownId(quote_id'[c])) => Raised(outcomes'[c])
       /\ (/\ tool_pc[c] \in {"idle", "debug"}
           /\ tool_pc'[c] /= tool_pc[c]
           /\ quote_id'[c] = "None"
           /\ CachedUnusable)
            => /\ tool_pc'[c] = "done"
               /\ outcomes'[c] \in {"RuntimeError_total", "RuntimeError_context"}
       /\ AsksRandom(c) => total_quotes /= <<>> /\ total_quotes[1] > 0
       /\ (Arrives(c) /\ quote_id'[c] /= "None")
            => tool_pc'[c] = "by_id" \/ outcomes'[c] = "RuntimeError_context"]_vars

C14_Witness ==
  /\ tool_pc[1] = "done" /\ quote_id[1] = "q9" /\ outcomes[1] = "RuntimeError_notfound"
  /\ tool_pc[2] = "done" /\ quote_id[2] = "None" /\ outcomes[2] = "RuntimeError_total"
  /\ total_quotes = <<0>>

(***************************************************************************)
(* C20.  The total is asked of the upstream API only while none is cached; *)
(* once a count response has been parsed the cached total is never asked   *)
(* for again nor changed, whatever its sign, so a call without an id that  *)
(* arrives when an unusable total is cached raises without a request to    *)
(* the upstream API; a count request that ends in an error status leaves   *)
(* the cache as it was.                                                    *)
(***************************************************************************)
C20_TotalCachedOnce ==
  [][/\ \A c \in ToolCalls :
          /\ AsksTotal(c) => total_quotes = <<>>
          /\ (Arrives(c) /\ quote_id'[c] = "None" /\ CachedUnusable)
               => tool_pc'[c] = "done" /\ Raised(outcomes'[c])
          /\ (tool_pc[c] = "count" /\ outcomes'[c] = "HTTPStatusError")
               => total_quotes' = total_quotes
     /\ total_quotes /= <<>> => total_quotes' = total_quotes]_vars

(***************************************************************************)
(* The order of the calls and the text they carry.                         *)
(***************************************************************************)
\* `ch` is the character `low`, or the capital of the letter `low`
MatchesAnyCase(ch, low) ==
  ch = low \/ \E k \in 1..26 : LowerLetters[k] = low /\ UpperLetters[k] = ch

\* `text` holds `phrase` (letters in lower case) somewhere, in any mix of cases
HoldsPhraseAnyCase(text, phrase) ==
  \E at \in 0..(Len(text) - Len(phrase)) :
    \A i \in 1..Len(phrase) : MatchesAnyCase(text[at + i], phrase[i])

Replied(i, agent) ==
  i \in DOMAIN calls /\ calls[i].agent = agent /\ calls[i].state = "done"

ProposesSolution(i) ==
  HoldsPhraseAnyCase(calls[i].reply, <<"s","o","l","u","t","i","o","n",":">>)

OrdinaryBilboReplied(i) == Replied(i, "bilbo") /\ ~IsVerification(calls[i])

\* no call follows call i because the for loop has no turn left for one
NoTurnLeft(i) == i = Len(calls) /\ (pc = "my_loop" \/ turn >= max_turns)

Follows(i, agent, message) ==
  i < Len(calls) /\ calls[i + 1].agent = agent /\ calls[i + 1].message = message

(***************************************************************************)
(* C15.  In run_mystery_solving the first investigator called is Gandalf.  *)
(* When a reply of Gandalf holds "solution:" in any mix of letter cases    *)
(* the very next call is Bilbo's verification, carrying the whole reply.   *)
(* Otherwise the next call, when the loop has a turn left, is Bilbo's      *)
(* analysis carrying the reply, and the call after an analysis of Bilbo,   *)
(* when there is one, is Gandalf's and carries Bilbo's reply.              *)
(***************************************************************************)
C15_InvestigatorsTakeTurns ==
  MysteryRun
    => /\ \A i \in DOMAIN calls :
            calls[i].agent \in {"gandalf", "bilbo"}
              => \E first \in 1..i :
                   /\ calls[first].agent = "gandalf"
                   /\ \A j \in 1..(first - 1) : calls[j].agent = "sauron"
       /\ \A i \in DOMAIN calls :
            /\ (Replied(i, "gandalf") /\ ProposesSolution(i))
                 => Follows(i, "bilbo",
                            VERIFY_HEAD \o calls[i].reply \o VERIFY_TAIL)
            /\ (Replied(i, "gandalf") /\ ~ProposesSolution(i))
                 => \/ Follows(i, "bilbo",
                               ANALYSIS_HEAD \o calls[i].reply \o ANALYSIS_TAIL)
                    \/ NoTurnLeft(i)
            /\ OrdinaryBilboReplied(i)
                 => \/ Follows(i, "gandalf",
                               OBSERVATION_HEAD \o calls[i].reply \o OBSERVATION_TAIL)
                    \/ NoTurnLeft(i)

C15_Witness ==
  /\ MysteryRun
  /\ Len(calls) = 5
  /\ Replied(2, "gandalf") /\ ~ProposesSolution(2)
  /\ OrdinaryBilboReplied(3)
  /\ Replied(4, "gandalf") /\ ProposesSolution(4)
  /\ calls[4].reply = <<"S","o","l","u","t","i","o","n",":"," ","x">>
  /\ IsVerification(calls[5])

(***************************************************************************)
(* C16.  After a verification reply of Bilbo that does not concur, the     *)
(* next call, when the loop has a turn left, is Gandalf's, never Bilbo's,  *)
(* and its message holds Bilbo's reply as it was.                          *)
(***************************************************************************)
C16_DissentGoesBackToGandalf ==
  MysteryRun
    => \A i \in DOMAIN calls :
         (VerificationReplied(i) /\ ~ConcurringReply(i))
           => /\ \/ Follows(i, "gandalf",
                            DISSENT_HEAD \o calls[i].reply \o DISSENT_TAIL)
                 \/ NoTurnLeft(i)
              /\ i = Len(calls) => current_investigator = "gandalf"

C16_Witness ==
  /\ MysteryRun
  /\ \E i \in DOMAIN calls :
       /\ VerificationReplied(i)
       /\ calls[i].reply = <<"c","o","n","c","e","r","n">>
       /\ i < Len(calls)
       /\ calls[i + 1].agent = "gandalf"
       /\ calls[i + 1].state = "done"

(***************************************************************************)
(* C17.  In run_ping_pong the first message to the poet is the initial     *)
(* task.  Every message to the critic holds the poem the poet gave in the  *)
(* same iteration.  Every later message to the poet follows a verdict of   *)
(* revise and holds the whole feedback of the critic and the poem of the   *)
(* iteration just ended, not an earlier draft.                             *)
(***************************************************************************)
C17_MessagesCarryTheLatestTexts ==
  PoetryRun
    => \A i \in DOMAIN calls :
         /\ i = 1 => calls[i].agent = "poet" /\ calls[i].message = INITIAL_TASK
         /\ calls[i].agent = "critic"
              => /\ Replied(i - 1, "poet")
                 /\ calls[i].message = REVIEW_REQUEST \o calls[i - 1].reply
         /\ (calls[i].agent = "poet" /\ i > 1)
              => /\ Replied(i - 1, "critic")
                 /\ Replied(i - 2, "poet")
                 /\ ~BeginsWithAnyCase(calls[i - 1].reply, W_approved)
                 /\ calls[i].message
                      = INCORPORATE \o FEEDBACK_LABEL \o calls[i - 1].reply
                          \o DRAFT_LABEL \o calls[i - 2].reply
         /\ Replied(i, "poet") => i < Len(calls) /\ calls[i + 1].agent = "critic"

C17_Witness ==
  /\ PoetryRun
  /\ Len(calls) >= 5
  /\ calls[5].agent = "poet"
  /\ calls[1].reply /= calls[3].reply
  /\ calls[2].reply /= calls[4].reply

(***************************************************************************)
(* C18.  In run_mystery_solving Sauron is called exactly once, before any  *)
(* investigator, and never again, whatever max_turns is; the first message *)
(* to Gandalf holds what Sauron's call gave.  No other scenario calls      *)
(* Sauron.                                                                 *)
(***************************************************************************)
C18_SauronCalledOnceFirst ==
  /\ MysteryRun
       => /\ CallsOf("sauron") = 1
          /\ calls[1].agent = "sauron"
          /\ \A i \in DOMAIN calls :
               i > 1 => /\ calls[i].agent \in {"gandalf", "bilbo"}
                        /\ calls[1].state = "done"
          /\ Len(calls) >= 2
               => /\ calls[2].agent = "gandalf"
                  /\ calls[2].message = CONTEXT_HEAD \o calls[1].reply \o CONTEXT_TAIL
                  /\ max_turns >= 1
  /\ ~MysteryRun => CallsOf("sauron") = 0

C18_Witness ==
  /\ MysteryRun
  /\ EndedNormally
  /\ max_turns = 2
  /\ Len(calls) = 3
  /\ calls[1].reply = <<"r","i","d","d","l","e">>
  /\ calls[2].agent = "gandalf"

(***************************************************************************)
(* C19.  Each agent of a scenario has one thread, made when the scenario   *)
(* starts and never replaced; no two agents have the same thread; every    *)
(* call pairs its agent with that agent's thread; no thread is made once a *)
(* call has been made.                                                     *)
(***************************************************************************)
ThreadsPaired ==
  /\ \A a, b \in Agents : (threads[a] /= 0 /\ threads[a] = threads[b]) => a = b
  /\ \A i \in DOMAIN calls :
       /\ calls[i].thread /= 0
       /\ calls[i].thread = threads[calls[i].agent]
       /\ \A a \in Agents \ {calls[i].agent} : calls[i].thread /= threads[a]

C19_OneThreadPerAgent ==
  [][/\ ThreadsPaired'
     /\ \A a \in Agents : threads[a] /= 0 => threads'[a] = threads[a]
     /\ calls /= <<>> => threads' = threads
     /\ threads' /= threads
          => /\ pc = "acquire"
             /\ calls = <<>>
             /\ \A a \in Agents :
                  threads'[a] /= 0
                    <=> \/ scenario = W_poetry /\ a \in {"poet", "critic"}
                        \/ scenario = W_mystery /\ a \in {"sauron", "gandalf", "bilbo"}]_vars

C19_Witness ==
  /\ MysteryRun
  /\ Len(calls) >= 4
  /\ Cardinality({calls[i].thread : i \in DOMAIN calls}) = 3
  /\ \E i \in DOMAIN calls : IsVerification(calls[i])

(***************************************************************************)
(* C21.  run_mystery_solving is solved only by a verification: when the    *)
(* run is solved its last call is Bilbo's verification, its reply concurs, *)
(* and the call before it is Gandalf's with a reply that holds             *)
(* "solution:".  A reply of Bilbo in an ordinary turn that holds "concur"  *)
(* does not end the run: it leaves the run unsolved and in its loop, and   *)
(* the next call, when the loop has a turn left, is Gandalf's and carries  *)
(* the reply as any other observation.                                     *)
(***************************************************************************)
ConcurringObservation(i) ==
  OrdinaryBilboReplied(i) /\ HoldsAnyCase(calls[i].reply, <<"c","o","n","c","u","r">>)

C21_SolvedOnlyByVerification ==
  MysteryRun
    => /\ (solved \/ Reported("solved"))
            => /\ Len(calls) >= 3
               /\ ConcurringReply(Len(calls))
               /\ Replied(Len(calls) - 1, "gandalf")
               /\ ProposesSolution(Len(calls) - 1)
               /\ Reported("proposed")
       /\ \A i \in DOMAIN calls :
            ConcurringObservation(i)
              => /\ \/ Follows(i, "gandalf",
                               OBSERVATION_HEAD \o calls[i].reply \o OBSERVATION_TAIL)
                    \/ NoTurnLeft(i)
                 /\ i = Len(calls)
                      => /\ ~solved
                         /\ ~Reported("solved")
                         /\ current_investigator = "gandalf"
                         /\ EndedNormally => Reported("unsolved")

C21_Witness ==
  /\ MysteryRun
  /\ EndedNormally
  /\ solved
  /\ \E i \in DOMAIN calls :
       /\ ConcurringObservation(i)
       /\ calls[i].reply = <<"I"," ","C","O","N","C","U","R">>
       /\ i + 1 < Len(calls)
       /\ calls[i + 1].state = "done"

(***************************************************************************)
(* C22.  In run_ping_pong the calls alternate poet, critic, poet, critic,  *)
(* starting with the poet, and no other agent is called.  At every moment  *)
(* the critic has been called as often as the poet or once less, once less *)
(* only while the poet's call is the one in flight.  When run_ping_pong    *)
(* has returned without raising (approved, or the limit reached) the two   *)
(* numbers are equal and every call has been answered, so the last poem    *)
(* the poet gave is the one the critic's last call reviewed.               *)
(***************************************************************************)
C22_PoetAndCriticAlternate ==
  PoetryRun
    => /\ \A i \in DOMAIN calls :
            calls[i].agent = IF i % 2 = 1 THEN "poet" ELSE "critic"
       /\ CallsOf("critic") \in {CallsOf("poet"), CallsOf("poet") - 1}
       /\ CallsOf("critic") = CallsOf("poet") - 1
            => /\ calls[Len(calls)].agent = "poet"
               /\ calls[Len(calls)].state /= "done"
       /\ Returned
            => /\ CallsOf("critic") = CallsOf("poet")
               /\ \A i \in DOMAIN calls : calls[i].state = "done"
               /\ Reported("approved") \/ Reported("limit")
               /\ calls /= <<>>
                    => /\ poem_output = calls[Len(calls) - 1].reply
                       /\ calls[Len(calls)].message
                            = REVIEW_REQUEST \o calls[Len(calls) - 1].reply

C22_Witness ==
  /\ PoetryRun
  /\ EndedNormally
  /\ Reported("limit")
  /\ CallsOf("poet") = 3
  /\ CallsOf("critic") = 3
  /\ calls[5].reply /= calls[3].reply

====
